---- MODULE Spec2Model ----
(***************************************************************************)
(* Model of documentacao_ress/CodigoAnalise.py: the single-pass analysis   *)
(* script for septic-arthritis admissions (SIH/SUS).  The table (df) is a  *)
(* sequence of records, one per admission; each stage of the script is one *)
(* action.  Text values are sequences of one-character strings so that     *)
(* lower-casing, stripping, substring tests and sorting are computed.      *)
(* A nullable cell is <<>> (NaN / NaT) or <<v>>.                           *)
(***************************************************************************)
EXTENDS Integers, Sequences, FiniteSets, TLC

VARIABLES
    pc,             \* the stage the script is about to run
    input,          \* the table as loaded and type-converted (lines 79-127)
    df,             \* the working table (df, then its copy df_analysis)
    readm_raised,   \* the except branch of stage 4 ran (lines 208-212)
    reg_raised,     \* the except branch of stage 8 ran (lines 364-367)
    odds_ratios_df, \* "undefined" | "None" | "table"
    written,        \* output files written so far
    proc_in,        \* categorize_procedure_v2: the argument
    proc_cat,       \* categorize_procedure_v2: the value returned
    proc_conv,      \* that value after pd.Categorical(..., categories=[...])
    cat_pc          \* position of the stand-alone categorization run

vars == << pc, input, df, readm_raised, reg_raised, odds_ratios_df, written,
           proc_in, proc_cat, proc_conv, cat_pc >>

pipevars == << pc, input, df, readm_raised, reg_raised, odds_ratios_df, written >>

catvars == << proc_in, proc_cat, proc_conv, cat_pc >>

----------------------------------------------------------------------------
(* Bounds of the model *)

\* rows of the input table when every kind of row (clean, defective) is drawn
MaxTable == 2

\* rows of the input table when only rows that pass the cleaning are drawn
MaxRows == 3

\* fragments joined into one procedure name
MaxFrags == 3

----------------------------------------------------------------------------
(* Nullable cells *)

Missing == << >>

Some(v) == << v >>

IsNa(x) == x = Missing

Val(x) == x[1]

----------------------------------------------------------------------------
(* Text: sequences of characters *)

UpperChars ==
    <<"A","B","C","D","E","F","G","H","I","J","K","L","M","N","O","P","Q","R","S","T","U","V","W","X","Y","Z">>

LowerChars ==
    <<"a","b","c","d","e","f","g","h","i","j","k","l","m","n","o","p","q","r","s","t","u","v","w","x","y","z">>

\* the characters of the model in code-point order
CharOrder ==
    <<" ","-",".","/","0","1","2","3","4","5","6","7","8","9","A","B","C","D","E","F","G","H","I","J","K","L","M","N","O","P","Q","R","S","T","U","V","W","X","Y","Z","a","b","c","d","e","f","g","h","i","j","k","l","m","n","o","p","q","r","s","t","u","v","w","x","y","z","|">>

Ord(c) == CHOOSE i \in 1..Len(CharOrder) : CharOrder[i] = c

LowerChar(c) ==
    IF \E i \in 1..Len(UpperChars) : UpperChars[i] = c
    THEN LowerChars[CHOOSE i \in 1..Len(UpperChars) : UpperChars[i] = c]
    ELSE c

\* str.lower()
StrLower(s) == [i \in 1..Len(s) |-> LowerChar(s[i])]

\* kw in s
Contains(s, kw) ==
    \E i \in 1..(Len(s) - Len(kw) + 1) : SubSeq(s, i, i + Len(kw) - 1) = kw

\* any(kw in s for kw in kws)
ContainsAny(s, kws) == \E kw \in kws : Contains(s, kw)

RECURSIVE LStrip(_)
LStrip(s) == IF s # << >> /\ Head(s) = " " THEN LStrip(Tail(s)) ELSE s

RECURSIVE RStrip(_)
RStrip(s) ==
    IF s # << >> /\ s[Len(s)] = " " THEN RStrip(SubSeq(s, 1, Len(s) - 1)) ELSE s

\* str.strip()
StrStrip(s) == RStrip(LStrip(s))

\* s < t for Python strings (code-point lexicographic order)
RECURSIVE StrLess(_, _)
StrLess(s, t) ==
    IF t = << >> THEN FALSE
    ELSE IF s = << >> THEN TRUE
    ELSE IF Head(s) # Head(t) THEN Ord(Head(s)) < Ord(Head(t))
    ELSE StrLess(Tail(s), Tail(t))

----------------------------------------------------------------------------
(* Program constants *)

\* df['idade'] >= 18
MinIdade == 18

\* df['dias_perm'] >= 1
MinDiasPerm == 1

\* df['intervalo_dias'] <= 30
ReadmWindow == 30

----------------------------------------------------------------------------
(* The loaded table *)

\* admission and discharge days: the window's edges, counted in whole days
Days == {0, ReadmWindow, ReadmWindow + 1}

Cep1 == <<"1">>

Cep2 == <<"2">>

Cep1Padded == <<" ","1">>

ProcDrenagem == <<"d","r","e","n","a","g","e","m">>

\* a row that passes every inclusion filter
BaseRow ==
    [ munic_res |-> Some(<<"9">>), nasc |-> Some(0), sexo |-> Some(1),
      cep |-> Some(Cep1), dt_inter |-> Some(0), dt_saida |-> Some(0),
      dias_perm |-> Some(MinDiasPerm), idade |-> Some(MinIdade),
      morte |-> Some(0), proc_nome |-> Some(ProcDrenagem) ]

\* rows with every admission/discharge pair whose discharge is not before the
\* admission, for each of the given postal codes
DatedRows(ceps) ==
    { [BaseRow EXCEPT !.cep = c, !.dt_inter = Some(p[1]), !.dt_saida = Some(p[2])] :
        c \in ceps,
        p \in {q \in Days \X Days : q[2] >= q[1]} }

\* rows of two proxy identities, the postal code present
ReadmRows == DatedRows({Some(Cep1), Some(Cep2)})

\* rows the cleaning keeps: one postal code present, one absent from the file
CleanRows == DatedRows({Some(Cep1), Missing})

InputColumns == DOMAIN BaseRow

\* rows with one essential cell missing
NaRows ==
    { [BaseRow EXCEPT ![c] = Missing] : c \in InputColumns \ {"cep"} }

\* rows an inclusion filter rejects, and rows of other proxy identities
OtherRows ==
    { [BaseRow EXCEPT !.idade = Some(MinIdade - 1)],
      [BaseRow EXCEPT !.dias_perm = Some(MinDiasPerm - 1)],
      [BaseRow EXCEPT !.dt_inter = Some(ReadmWindow), !.dt_saida = Some(0)],
      [BaseRow EXCEPT !.cep = Some(Cep1Padded)],
      [BaseRow EXCEPT !.nasc = Some(1)] }

AllRows == CleanRows \cup NaRows \cup OtherRows

Tables(rows, n) == UNION { [1..k -> rows] : k \in 0..n }

----------------------------------------------------------------------------
(* Stage 2: cleaning (lines 129-149) *)

\* Series.astype(str) of a text column: a missing cell becomes the text 'nan'
AstypeStr(x) == IF IsNa(x) THEN Some(<<"n","a","n">>) ELSE x

\* Series.fillna(v)
Fillna(x, v) == IF IsNa(x) THEN Some(v) ELSE x

\* Series.str.strip()
StripCell(x) == IF IsNa(x) THEN x ELSE Some(StrStrip(Val(x)))

\* df['cep'].astype(str).fillna('NA').str.strip()
CepStr(cep) == StripCell(Fillna(AstypeStr(cep), <<"N","A">>))

SetCol(r, c, v) == [k \in (DOMAIN r) \cup {c} |-> IF k = c THEN v ELSE r[k]]

AddCepStr(t) == [i \in 1..Len(t) |-> SetCol(t[i], "cep_str", CepStr(t[i].cep))]

cols_to_check_na ==
    { "idade", "dias_perm", "sexo", "morte", "nasc", "dt_inter", "dt_saida",
      "cep_str", "munic_res", "proc_nome" }

NoNa(r) == \A c \in cols_to_check_na : ~IsNa(r[c])

\* df.dropna(subset=cols_to_check_na)
DropNa(t) == SelectSeq(t, NoNa)

\* x >= n on a nullable numeric cell: False on NaN
CellGe(x, n) == ~IsNa(x) /\ Val(x) >= n

AgeStayFilterOr(r) == CellGe(r.idade, MinIdade) \/ CellGe(r.dias_perm, MinDiasPerm)

\* (df['idade'] >= 18) & (df['dias_perm'] >= 1)
AgeStayFilter(r) == CellGe(r.idade, MinIdade) /\ CellGe(r.dias_perm, MinDiasPerm)

\* df['dt_saida'] >= df['dt_inter']: False when either is NaT
DateFilter(r) ==
    ~IsNa(r.dt_saida) /\ ~IsNa(r.dt_inter) /\ Val(r.dt_saida) >= Val(r.dt_inter)

CleanTable(t) == SelectSeq(SelectSeq(DropNa(AddCepStr(t)), AgeStayFilter), DateFilter)

----------------------------------------------------------------------------
(* Stage 4: 30-day readmission by proxy identity (lines 178-212) *)

\* nasc.dt.strftime('%Y-%m-%d'); births are whole days counted from 1970-01-01
Strftime(d) ==
    CASE d = 0 -> <<"1","9","7","0","-","0","1","-","0","1">>
      [] d = 1 -> <<"1","9","7","0","-","0","1","-","0","2">>

Digits == <<"0","1","2","3","4","5","6","7","8","9">>

\* dtype of the sexo column after pd.to_numeric: integers, unless the file had
\* an empty cell in that column
SexoDtype(t) ==
    IF \E i \in 1..Len(t) : IsNa(t[i].sexo) THEN "float64" ELSE "int64"

\* astype(str) of a one-digit number of that dtype
NumStr(n, dtype) ==
    IF dtype = "float64" THEN << Digits[n + 1], ".", "0" >> ELSE << Digits[n + 1] >>

\* line 180
AddNascStr(t) ==
    [i \in 1..Len(t) |->
        SetCol(t[i], "nasc_str",
               IF IsNa(t[i].nasc) THEN Missing ELSE Some(Strftime(Val(t[i].nasc))))]

\* line 182: munic_res + '|' + nasc_str + '|' + sexo + '|' + cep_str
IdentProxy(r, dtype) ==
    IF IsNa(r.munic_res) \/ IsNa(r.nasc_str) \/ IsNa(r.sexo) \/ IsNa(r.cep_str)
    THEN Missing
    ELSE Some(Val(r.munic_res) \o <<"|">> \o Val(r.nasc_str) \o <<"|">>
              \o NumStr(Val(r.sexo), dtype) \o <<"|">> \o Val(r.cep_str))

AddIdentProxy(t, dtype) ==
    [i \in 1..Len(t) |-> SetCol(t[i], "ident_proxy", IdentProxy(t[i], dtype))]

\* the order of sort_values(by=['ident_proxy', 'dt_inter'])
RowLess(a, b) ==
    \/ StrLess(Val(a.ident_proxy), Val(b.ident_proxy))
    \/ /\ a.ident_proxy = b.ident_proxy
       /\ Val(a.dt_inter) < Val(b.dt_inter)

\* r placed after every row that is not greater than it
InsertRow(sorted, r) ==
    LET after == {k \in 1..Len(sorted) : RowLess(r, sorted[k])}
        pos == IF after = {} THEN Len(sorted) + 1
               ELSE CHOOSE k \in after : \A m \in after : k <= m
    IN SubSeq(sorted, 1, pos - 1) \o << r >> \o SubSeq(sorted, pos, Len(sorted))

RECURSIVE SortPrefix(_, _)
SortPrefix(t, n) == IF n = 0 THEN << >> ELSE InsertRow(SortPrefix(t, n - 1), t[n])

\* line 185: df.sort_values(by=['ident_proxy', 'dt_inter']), a stable sort
SortValues(t) == SortPrefix(t, Len(t))

\* df['dt_saida'].shift(1): the previous row's discharge date, whatever its group
PlainShift(t, i) == IF i = 1 THEN Missing ELSE t[i - 1].dt_saida

\* line 188: df.groupby('ident_proxy')['dt_saida'].shift(1): the discharge date
\* of the previous row of the same group, NaT for the group's first row
GroupShift(t, i) ==
    LET prev == {j \in 1..(i - 1) : t[j].ident_proxy = t[i].ident_proxy}
    IN IF prev = {} \/ IsNa(t[i].ident_proxy) THEN Missing
       ELSE t[CHOOSE j \in prev : \A m \in prev : m <= j].dt_saida

AddDtSaidaAnterior(t) ==
    [i \in 1..Len(t) |-> SetCol(t[i], "dt_saida_anterior", GroupShift(t, i))]

\* lines 191-194: whole days from the previous discharge to this admission
IntervaloDias(r) ==
    IF IsNa(r.dt_saida_anterior) THEN Missing
    ELSE Some(Val(r.dt_inter) - Val(r.dt_saida_anterior))

AddIntervaloDias(t) ==
    [i \in 1..Len(t) |-> SetCol(t[i], "intervalo_dias", IntervaloDias(t[i]))]

Readmitido30dExclusive(x) ==
    IF ~IsNa(x) /\ Val(x) >= 0 /\ Val(x) < ReadmWindow THEN 1 ELSE 0

\* line 197: ((intervalo_dias >= 0) & (intervalo_dias <= 30)).astype(int)
Readmitido30d(x) ==
    IF ~IsNa(x) /\ Val(x) >= 0 /\ Val(x) <= ReadmWindow THEN 1 ELSE 0

AddReadmitido(t) ==
    [i \in 1..Len(t) |-> SetCol(t[i], "readmitido_30d", Readmitido30d(t[i].intervalo_dias))]

\* the table after the first k statements of the try block (lines 180-197)
ReadmProgress(t, dtype, k) ==
    LET t1 == IF k >= 1 THEN AddNascStr(t) ELSE t
        t2 == IF k >= 2 THEN AddIdentProxy(t1, dtype) ELSE t1
        t3 == IF k >= 3 THEN SortValues(t2) ELSE t2
        t4 == IF k >= 4 THEN AddDtSaidaAnterior(t3) ELSE t3
        t5 == IF k >= 5 THEN AddIntervaloDias(t4) ELSE t4
        t6 == IF k >= 6 THEN AddReadmitido(t5) ELSE t5
    IN t6

\* the whole try block
ReadmAll(t, dtype) == ReadmProgress(t, dtype, 6)

KeepOrZero(t) ==
    [i \in 1..Len(t) |->
        IF "readmitido_30d" \in DOMAIN t[i] THEN t[i]
        ELSE SetCol(t[i], "readmitido_30d", 0)]

\* line 211: df['readmitido_30d'] = 0
ZeroColumn(t) == [i \in 1..Len(t) |-> SetCol(t[i], "readmitido_30d", 0)]

\* statements of the try block completed when it raises: none (line 180
\* raises), the sort done (line 188 raises), all columns computed (the rate
\* report of lines 199-206 raises)
ReadmFailPoints == {0, 3, 6}

----------------------------------------------------------------------------
(* Stage 5: categorize_procedure_v2 (lines 218-240) *)

KwCirurgiaGrande ==
    { <<"a","r","t","r","o","p","l","a","s","t","i","a">>,
      <<"a","r","t","r","o","d","e","s","e">>,
      <<"o","s","t","e","o","s","s","i","n","t","e","s","e">>,
      <<"r","e","c","o","n","s","t","r","u","c","a","o">>,
      <<"r","e","s","s","e","c","/","t","u","m","o","r">> }

KwProcEspecificos ==
    { <<"a","r","t","r","o","t","o","m">>,
      <<"s","i","n","o","v","e","c","t","o","m","i","a">> }

KwCirurgiaMediaPequena ==
    { <<"a","r","t","r","o","s","c","o","p","i","a">>,
      <<"d","e","s","b","r","i","d","a","m","e","n","t","o">>,
      <<"e","x","e","r","e","s","e">>,
      <<"t","e","n","o","r","r","a","f","i","a">>,
      <<"c","a","p","s","u","l","o","r","r","a","f","i","a">> }

KwOutros ==
    { <<"d","r","e","n","a","g","e","m">>,
      <<"b","i","o","p","s","i","a">>,
      <<"p","u","n","c","a","o">>,
      <<"r","e","t","i","r","a","d">>,
      <<"r","e","p","a","r","a","c","a","o">>,
      <<"c","o","r","p","o"," ","e","s","t","r","a","n","h","o">> }

KwConservador ==
    { <<"c","o","n","s","e","r","v","a","d","o","r">>,
      <<"c","l","i","n","i","c","o">>,
      <<"s","e","m"," ","p","r","o","c","e","d","i","m","e","n","t","o">>,
      <<"n","a">> }

CorpoEstranho == <<"c","o","r","p","o"," ","e","s","t","r","a","n","h","o">>

\* line 220: str(proc_nome).lower() if pd.notna(proc_nome) else 'na'
NormalizeName(proc_nome) ==
    IF IsNa(proc_nome) THEN <<"n","a">> ELSE StrLower(Val(proc_nome))

CategorizeChain(nome, fallback) ==
    IF ContainsAny(nome, KwCirurgiaGrande) THEN "Cirurgia Grande"
    ELSE IF ContainsAny(nome, KwProcEspecificos) /\ ~Contains(nome, CorpoEstranho)
         THEN "Procedimentos Específicos"
    ELSE IF ContainsAny(nome, KwCirurgiaMediaPequena) THEN "Cirurgia Média/Pequena"
    ELSE IF ContainsAny(nome, KwOutros) THEN "Outros procedimentos"
    ELSE IF ContainsAny(nome, KwConservador) THEN "Conservador"
    ELSE fallback

\* the final else returning a label that is not a declared category
categorize_default_outros(proc_nome) ==
    CategorizeChain(NormalizeName(proc_nome), "Outros")

\* the keyword tests applied to the name without lower-casing it
categorize_case_sensitive(proc_nome) ==
    CategorizeChain(IF IsNa(proc_nome) THEN <<"n","a">> ELSE Val(proc_nome),
                    "Outros procedimentos")

\* the second branch without its 'corpo estranho' exclusion
categorize_no_exclusion(proc_nome) ==
    LET nome == NormalizeName(proc_nome)
    IN IF ContainsAny(nome, KwCirurgiaGrande) THEN "Cirurgia Grande"
       ELSE IF ContainsAny(nome, KwProcEspecificos) THEN "Procedimentos Específicos"
       ELSE CategorizeChain(nome, "Outros procedimentos")

categorize_procedure_v2(proc_nome) ==
    CategorizeChain(NormalizeName(proc_nome), "Outros procedimentos")

\* line 244: df_analysis['proc_nome'].apply(categorize_procedure_v2)
AddProcCategoria(t) ==
    [i \in 1..Len(t) |->
        SetCol(t[i], "PROC_CATEGORIA", categorize_procedure_v2(t[i].proc_nome))]

\* line 323: the categories declared for PROC_CATEGORIA
RegressionCategories ==
    { "Conservador", "Cirurgia Grande", "Cirurgia Média/Pequena",
      "Outros procedimentos", "Procedimentos Específicos" }

\* a cell of a categorical column whose value is not a declared category
NaNCategory == "NaN"

\* line 322: pd.Categorical(values, categories=[...])
PdCategorical(v) == IF v \in RegressionCategories THEN v ELSE NaNCategory

ConvertProcCategoria(t) ==
    [i \in 1..Len(t) |->
        SetCol(t[i], "PROC_CATEGORIA", PdCategorical(t[i].PROC_CATEGORIA))]

----------------------------------------------------------------------------
(* Procedure names for the stand-alone categorization run *)

Fragments ==
    { <<"A","R","T","R","O","P","L","A","S","T","I","A">>,
      <<"a","r","t","r","o","d","e","s","e">>,
      <<"a","r","t","r","o","t","o","m","i","a">>,
      <<"S","i","n","o","v","e","c","t","o","m","i","a">>,
      <<"d","e","s","b","r","i","d","a","m","e","n","t","o">>,
      <<"d","r","e","n","a","g","e","m">>,
      <<"c","o","r","p","o"," ","e","s","t","r","a","n","h","o">>,
      <<"C","o","r","p","o"," ","E","s","t","r","a","n","h","o">>,
      <<"c","l","i","n","i","c","o">>,
      <<"p","e","r","n","a">>,
      <<"j","o","e","l","h","o">> }

\* the names made of exactly n fragments, joined by single spaces
RECURSIVE NamesOf(_)
NamesOf(n) ==
    IF n = 0 THEN { << >> }
    ELSE IF n = 1 THEN Fragments
    ELSE { a \o <<" ">> \o f : a \in NamesOf(n - 1), f \in Fragments }

Names == UNION { NamesOf(n) : n \in 0..MaxFrags }

\* the arguments: every name, and the missing value
ProcInputs == { Some(n) : n \in Names } \cup { Missing }

----------------------------------------------------------------------------
(* The script, stage by stage *)

Tabela2 == "Tabela2_Regressao_Logistica_Readmissao.csv"

Figura3Png == "Figura3_Forest_Plot_Readmissao.png"

Figura3Tiff == "Figura3_Forest_Plot_Readmissao.tiff"

PipeStart(t) ==
    /\ pc = "clean"
    /\ input = t
    /\ df = t
    /\ readm_raised = FALSE
    /\ reg_raised = FALSE
    /\ odds_ratios_df = "undefined"
    /\ written = {}

CatIdle ==
    /\ proc_in = Missing
    /\ proc_cat = "unset"
    /\ proc_conv = "unset"
    /\ cat_pc = "idle"

\* the table loaded: any rows, clean or defective
Init == (\E t \in Tables(AllRows, MaxTable) : PipeStart(t)) /\ CatIdle

\* the table loaded: rows that pass the cleaning, of two proxy identities
ReadmInit == (\E t \in Tables(ReadmRows, MaxRows) : PipeStart(t)) /\ CatIdle

\* lines 129-152: cep_str, dropna, the inclusion filters
Clean ==
    /\ pc = "clean"
    /\ df' = CleanTable(df)
    /\ pc' = "readmission"
    /\ UNCHANGED << input, readm_raised, reg_raised, odds_ratios_df, written >>
    /\ UNCHANGED catvars

\* lines 178-206: the try block runs to its end
ReadmissionOk ==
    /\ pc = "readmission"
    /\ df' = ReadmAll(df, SexoDtype(input))
    /\ pc' = "categorize"
    /\ UNCHANGED << input, readm_raised, reg_raised, odds_ratios_df, written >>
    /\ UNCHANGED catvars

\* what the except branch leaves in the table (lines 208-212)
ReadmHandler(t) == ZeroColumn(t)

\* lines 178-212: a statement of the try block raises after k of its
\* statements; the except branch sets the column to zero and the script goes on
ReadmissionRaises ==
    /\ pc = "readmission"
    /\ \E k \in ReadmFailPoints :
          df' = ReadmHandler(ReadmProgress(df, SexoDtype(input), k))
    /\ readm_raised' = TRUE
    /\ pc' = "categorize"
    /\ UNCHANGED << input, reg_raised, odds_ratios_df, written >>
    /\ UNCHANGED catvars

\* lines 242-248: df_analysis = df.copy(); PROC_CATEGORIA
Categorize ==
    /\ pc = "categorize"
    /\ df' = AddProcCategoria(df)
    /\ pc' = "figures"
    /\ UNCHANGED << input, readm_raised, reg_raised, odds_ratios_df, written >>
    /\ UNCHANGED catvars

\* lines 255-303: figures 1 and 2; an exception is caught and logged, and the
\* table and the later stages do not depend on the outcome
Figures ==
    /\ pc = "figures"
    /\ pc' = "transform"
    /\ UNCHANGED << input, df, readm_raised, reg_raised, odds_ratios_df, written >>
    /\ UNCHANGED catvars

\* lines 308-313: the regression variables are derived
TransformOk ==
    /\ pc = "transform"
    /\ pc' = "regression"
    /\ UNCHANGED << input, df, readm_raised, reg_raised, odds_ratios_df, written >>
    /\ UNCHANGED catvars

\* lines 314-316: the transformation raises and the script exits
TransformExits ==
    /\ pc = "transform"
    /\ pc' = "exit"
    /\ UNCHANGED << input, df, readm_raised, reg_raised, odds_ratios_df, written >>
    /\ UNCHANGED catvars

\* lines 320-362: the regression is fitted and its table saved
RegressionOk ==
    /\ pc = "regression"
    /\ df' = ConvertProcCategoria(df)
    /\ odds_ratios_df' = "table"
    /\ written' = written \cup {Tabela2}
    /\ pc' = "forest"
    /\ UNCHANGED << input, readm_raised, reg_raised >>
    /\ UNCHANGED catvars

\* what the except branch leaves in odds_ratios_df (line 367)
RegressionHandler == "None"

\* lines 320-367: the try block raises, at the conversion (line 322) or after
\* it and before the table is saved (lines 325-361)
RegressionRaises ==
    /\ pc = "regression"
    /\ \/ df' = df
       \/ df' = ConvertProcCategoria(df)
    /\ odds_ratios_df' = RegressionHandler
    /\ reg_raised' = TRUE
    /\ pc' = "forest"
    /\ UNCHANGED << input, readm_raised, written >>
    /\ UNCHANGED catvars

ForestGuardAlways(o) == TRUE

\* line 370: if odds_ratios_df is not None
ForestGuard(o) == o # "None"

\* lines 370-423: the forest plot is drawn and saved in both formats
ForestOk ==
    /\ pc = "forest"
    /\ ForestGuard(odds_ratios_df)
    /\ written' = written \cup {Figura3Png, Figura3Tiff}
    /\ pc' = "final"
    /\ UNCHANGED << input, df, readm_raised, reg_raised, odds_ratios_df >>
    /\ UNCHANGED catvars

\* lines 372-426: the plot raises, before the first savefig or between the
\* two; the exception is caught and logged
ForestRaises ==
    /\ pc = "forest"
    /\ ForestGuard(odds_ratios_df)
    /\ \/ written' = written
       \/ written' = written \cup {Figura3Png}
    /\ pc' = "final"
    /\ UNCHANGED << input, df, readm_raised, reg_raised, odds_ratios_df >>
    /\ UNCHANGED catvars

\* lines 427-428: no odds-ratio table, no figure 3
ForestSkipped ==
    /\ pc = "forest"
    /\ ~ForestGuard(odds_ratios_df)
    /\ pc' = "final"
    /\ UNCHANGED << input, df, readm_raised, reg_raised, odds_ratios_df, written >>
    /\ UNCHANGED catvars

\* lines 432-433: the completion message
Finish ==
    /\ pc = "final"
    /\ pc' = "done"
    /\ UNCHANGED << input, df, readm_raised, reg_raised, odds_ratios_df, written >>
    /\ UNCHANGED catvars

Next ==
    \/ Clean
    \/ ReadmissionOk
    \/ ReadmissionRaises
    \/ Categorize
    \/ Figures
    \/ TransformOk
    \/ TransformExits
    \/ RegressionOk
    \/ RegressionRaises
    \/ ForestOk
    \/ ForestRaises
    \/ ForestSkipped
    \/ Finish

Spec == Init /\ [][Next]_vars

ReadmSpec == ReadmInit /\ [][Next]_vars

----------------------------------------------------------------------------
(* categorize_procedure_v2 run on its own *)

PipeIdle ==
    /\ pc = "done"
    /\ input = << >>
    /\ df = << >>
    /\ readm_raised = FALSE
    /\ reg_raised = FALSE
    /\ odds_ratios_df = "undefined"
    /\ written = {}

CatInit ==
    /\ PipeIdle
    /\ proc_in \in ProcInputs
    /\ proc_cat = "unset"
    /\ proc_conv = "unset"
    /\ cat_pc = "call"

\* PROC_CATEGORIA = categorize_procedure_v2(proc_nome)
CatApply ==
    /\ cat_pc = "call"
    /\ proc_cat' = categorize_procedure_v2(proc_in)
    /\ cat_pc' = "returned"
    /\ UNCHANGED << proc_in, proc_conv >>
    /\ UNCHANGED pipevars

\* pd.Categorical(PROC_CATEGORIA, categories=[...])
CatConvert ==
    /\ cat_pc = "returned"
    /\ proc_conv' = PdCategorical(proc_cat)
    /\ cat_pc' = "converted"
    /\ UNCHANGED << proc_in, proc_cat >>
    /\ UNCHANGED pipevars

CatNext ==
    \/ CatApply
    \/ CatConvert

CatSpec == CatInit /\ [][CatNext]_vars

----------------------------------------------------------------------------
(* Properties *)

\* the readmission stage has run to its end without raising
ReadmDone == pc \notin {"clean", "readmission"} /\ ~readm_raised

\* two records carry the same proxy identity: municipality, birth date, sex
\* and postal-code text
SameProxy(a, b) ==
    /\ a.munic_res = b.munic_res
    /\ a.nasc = b.nasc
    /\ a.sexo = b.sexo
    /\ a.cep_str = b.cep_str

\* whole days from record b's discharge to record a's admission
DaysSince(a, b) == Val(a.dt_inter) - Val(b.dt_saida)

InWindow(d) == 0 <= d /\ d <= 30

\* C1: once the readmission stage has run, the table is grouped by proxy
\* identity and ordered by admission date inside each group, and a record has
\* readmitido_30d = 1 exactly when the record just before it belongs to the
\* same proxy identity and was discharged 0 to 30 days before this record's
\* admission; every other record has readmitido_30d = 0.
C1_ReadmissionFlag ==
    ReadmDone =>
        /\ \A i, j \in 1..Len(df) :
              (i < j /\ SameProxy(df[i], df[j])) =>
                  /\ Val(df[i].dt_inter) <= Val(df[j].dt_inter)
                  /\ \A k \in i..j : SameProxy(df[i], df[k])
        /\ \A i \in 1..Len(df) :
              df[i].readmitido_30d =
                  IF /\ i > 1
                     /\ SameProxy(df[i - 1], df[i])
                     /\ InWindow(DaysSince(df[i], df[i - 1]))
                  THEN 1 ELSE 0

\* C1 witness: the script ends with a record flagged at exactly 30 days and
\* a record left unflagged although it has a predecessor in its group
C1_Witness ==
    /\ ReadmDone
    /\ pc = "done"
    /\ \E i, k \in 1..Len(df) :
          /\ df[i].readmitido_30d = 1
          /\ df[i].intervalo_dias = Some(30)
          /\ ~IsNa(df[k].intervalo_dias)
          /\ df[k].readmitido_30d = 0

\* C2: every record that survives the cleaning, at every later stage, has
\* idade >= 18, dias_perm >= 1 and dt_saida >= dt_inter.
C2_InclusionFilter ==
    pc # "clean" =>
        \A i \in 1..Len(df) :
            /\ ~IsNa(df[i].idade) /\ Val(df[i].idade) >= 18
            /\ ~IsNa(df[i].dias_perm) /\ Val(df[i].dias_perm) >= 1
            /\ ~IsNa(df[i].dt_saida) /\ ~IsNa(df[i].dt_inter)
            /\ Val(df[i].dt_saida) >= Val(df[i].dt_inter)

\* C2 witness: the regression stage is reached with one record kept and one
\* record of age 17 dropped
C2_Witness ==
    /\ pc = "regression"
    /\ Len(input) = 2
    /\ Len(df) = 1
    /\ \E i \in 1..2 : input[i].idade = Some(17)

\* C3: no record that survives the cleaning has a missing value in an
\* essential field; a record whose CEP is missing in the input is dropped.
C3_NoMissingEssential ==
    pc # "clean" =>
        \A i \in 1..Len(df) :
            /\ \A c \in { "idade", "dias_perm", "sexo", "morte", "nasc", "dt_inter",
                          "dt_saida", "cep", "cep_str", "munic_res", "proc_nome" } :
                  ~IsNa(df[i][c])

\* the stage-4 column is present and zero in every record
AllZero ==
    \A i \in 1..Len(df) :
        /\ "readmitido_30d" \in DOMAIN df[i]
        /\ df[i].readmitido_30d = 0

\* C5: when the readmission stage raises, the script goes on to the
\* categorization, and from then on every record has readmitido_30d = 0.
C5_ReadmissionFallback ==
    /\ [](readm_raised => (pc \notin {"clean", "readmission"} /\ AllZero))
    /\ [][pc = "readmission" => pc' = "categorize"]_vars

\* C5 witness: the regression stage is reached after the readmission stage
\* raised with its columns computed, one record being inside the window
C5_Witness ==
    /\ readm_raised
    /\ pc = "regression"
    /\ \E i \in 1..Len(df) :
          /\ "intervalo_dias" \in DOMAIN df[i]
          /\ ~IsNa(df[i].intervalo_dias)
          /\ InWindow(Val(df[i].intervalo_dias))
          /\ "PROC_CATEGORIA" \in DOMAIN df[i]

Figura3Written == Figura3Png \in written \/ Figura3Tiff \in written

EarlierDischarge(i, j) ==
    /\ i # j
    /\ SameProxy(df[i], df[j])
    /\ Val(df[j].dt_inter) < Val(df[i].dt_inter)
    /\ InWindow(DaysSince(df[i], df[j]))

\* C7 as stated: a record is flagged whenever any earlier admission of the
\* same proxy identity was discharged 0 to 30 days before its admission.
C7_AnyEarlierDischarge ==
    ReadmDone =>
        \A i, j \in 1..Len(df) : EarlierDischarge(i, j) => df[i].readmitido_30d = 1

\* the admissions of record i's proxy identity do not overlap: in the sorted
\* table each is discharged on or before the admission date of every later one
NoOverlap(i) ==
    \A a, b \in 1..Len(df) :
        (a < b /\ SameProxy(df[a], df[i]) /\ SameProxy(df[b], df[i])) =>
            Val(df[a].dt_saida) <= Val(df[b].dt_inter)

\* C7 amended: a record is flagged whenever any earlier admission of the same
\* proxy identity was discharged 0 to 30 days before its admission, provided
\* the admissions of that proxy identity do not overlap.
C7_NoOverlapComplete ==
    ReadmDone =>
        \A i, j \in 1..Len(df) :
            (EarlierDischarge(i, j) /\ NoOverlap(i)) => df[i].readmitido_30d = 1

\* C7 witness: a record flagged because of an earlier admission that is not
\* the one just before it, the proxy's admissions not overlapping
C7_Witness ==
    /\ ReadmDone
    /\ \E i, j \in 1..Len(df) :
          /\ j < i - 1
          /\ EarlierDischarge(i, j)
          /\ NoOverlap(i)
          /\ df[i].readmitido_30d = 1

\* the input columns of a record
InputPart(r) == [c \in InputColumns |-> r[c]]

\* how many flagged records carry each input row's content
FlaggedCount(t) ==
    [r \in {input[i] : i \in 1..Len(input)} |->
        Cardinality({i \in 1..Len(t) : InputPart(t[i]) = r /\ t[i].readmitido_30d = 1})]

\* the input table with its rows in another order
Reordered(f) == [i \in 1..Len(input) |-> input[f[i]]]

\* C8: the records flagged readmitido_30d = 1 are the same for every ordering
\* of the rows of the input file.
C8_OrderIndependent ==
    (pc = "categorize" /\ ~readm_raised) =>
        \A f \in Permutations(1..Len(input)) :
            FlaggedCount(ReadmAll(CleanTable(Reordered(f)), SexoDtype(input)))
                = FlaggedCount(df)

----------------------------------------------------------------------------
(* Properties of categorize_procedure_v2 *)

Returned == cat_pc \in {"returned", "converted"}

\* the lower-cased name the keyword groups are matched against
LoweredName == StrLower(Val(proc_in))

\* C4: categorize_procedure_v2 returns one of the five categories for every
\* name and for the missing value, these are the categories declared for
\* PROC_CATEGORIA, and the conversion to the categorical type keeps the value.
C4_Total ==
    /\ Returned =>
          proc_cat \in { "Conservador", "Cirurgia Grande", "Cirurgia Média/Pequena",
                         "Outros procedimentos", "Procedimentos Específicos" }
    /\ cat_pc = "converted" => (proc_conv = proc_cat /\ proc_conv # NaNCategory)

\* C4 witness: the missing value categorized and converted
C4_Witness ==
    /\ cat_pc = "converted"
    /\ proc_in = Missing
    /\ proc_conv = "Conservador"

C9_Order ==
    << "Cirurgia Grande", "Procedimentos Específicos", "Cirurgia Média/Pequena",
       "Outros procedimentos", "Conservador" >>

\* the name matches the g-th keyword group
C9_Matches(g, nome) ==
    CASE g = 1 -> ContainsAny(nome, KwCirurgiaGrande)
      [] g = 2 -> ContainsAny(nome, KwProcEspecificos) /\ ~Contains(nome, CorpoEstranho)
      [] g = 3 -> ContainsAny(nome, KwCirurgiaMediaPequena)
      [] g = 4 -> ContainsAny(nome, KwOutros)
      [] g = 5 -> ContainsAny(nome, KwConservador)

C9_Upper(s) ==
    [i \in 1..Len(s) |->
        IF \E k \in 1..Len(LowerChars) : LowerChars[k] = s[i]
        THEN UpperChars[CHOOSE k \in 1..Len(LowerChars) : LowerChars[k] = s[i]]
        ELSE s[i]]

\* C9: the value returned is the first group, in the order Cirurgia Grande,
\* Procedimentos Específicos, Cirurgia Média/Pequena, Outros procedimentos,
\* Conservador, that matches the lower-cased name; a name containing a
\* Cirurgia Grande keyword in any letter case is Cirurgia Grande; the result
\* does not depend on letter case; a name matching no group is Outros
\* procedimentos.
C9_Precedence ==
    (Returned /\ ~IsNa(proc_in)) =>
        LET matched == {g \in 1..5 : C9_Matches(g, LoweredName)}
        IN /\ matched # {} =>
                 proc_cat = C9_Order[CHOOSE g \in matched : \A h \in matched : g <= h]
           /\ matched = {} => proc_cat = "Outros procedimentos"
           /\ (\E kw \in { <<"a","r","t","r","o","p","l","a","s","t","i","a">>,
                           <<"a","r","t","r","o","d","e","s","e">>,
                           <<"o","s","t","e","o","s","s","i","n","t","e","s","e">>,
                           <<"r","e","c","o","n","s","t","r","u","c","a","o">>,
                           <<"r","e","s","s","e","c","/","t","u","m","o","r">> } :
                   Contains(LoweredName, kw)) => proc_cat = "Cirurgia Grande"
           /\ categorize_procedure_v2(Some(C9_Upper(Val(proc_in)))) = proc_cat

\* C9 witness: an upper-case Cirurgia Grande keyword beside a keyword of a
\* later group
C9_Witness ==
    /\ cat_pc = "returned"
    /\ ~IsNa(proc_in)
    /\ Val(proc_in) # LoweredName
    /\ ContainsAny(LoweredName, KwOutros)
    /\ ~ContainsAny(Val(proc_in), KwCirurgiaGrande)
    /\ proc_cat = "Cirurgia Grande"

\* an arthrotomy or synovectomy for a foreign body that is no major surgery
C10_ForeignBodyArthrotomy ==
    /\ Returned
    /\ ~IsNa(proc_in)
    /\ Contains(LoweredName, <<"c","o","r","p","o"," ","e","s","t","r","a","n","h","o">>)
    /\ \/ Contains(LoweredName, <<"a","r","t","r","o","t","o","m">>)
       \/ Contains(LoweredName, <<"s","i","n","o","v","e","c","t","o","m","i","a">>)
    /\ ~ContainsAny(LoweredName, KwCirurgiaGrande)

\* C10 as stated: every name with 'corpo estranho' and 'artrotom' or
\* 'sinovectomia', and no Cirurgia Grande keyword, is Outros procedimentos.
C10_ForeignBodyOutros ==
    C10_ForeignBodyArthrotomy => proc_cat = "Outros procedimentos"

\* C10 amended: every name with 'corpo estranho' and 'artrotom' or
\* 'sinovectomia', no Cirurgia Grande keyword and no Cirurgia Média/Pequena
\* keyword, is Outros procedimentos.
C10_ForeignBodyOutrosAmended ==
    (C10_ForeignBodyArthrotomy /\ ~ContainsAny(LoweredName, KwCirurgiaMediaPequena))
        => proc_cat = "Outros procedimentos"

\* C10 witness: an arthrotomy for a foreign body categorized
C10_Witness ==
    /\ C10_ForeignBodyArthrotomy
    /\ ~ContainsAny(LoweredName, KwCirurgiaMediaPequena)
    /\ proc_cat = "Outros procedimentos"

\* C11: the value returned is Conservador only if the name is missing or
\* contains one of 'conservador', 'clinico', 'sem procedimento'; a name that
\* only has the letters 'na' inside another word is not Conservador.
C11_ConservadorOnlyExplicit ==
    (Returned /\ proc_cat = "Conservador") =>
        \/ IsNa(proc_in)
        \/ \E kw \in { <<"c","o","n","s","e","r","v","a","d","o","r">>,
                       <<"c","l","i","n","i","c","o">>,
                       <<"s","e","m"," ","p","r","o","c","e","d","i","m","e","n","t","o">> } :
              Contains(LoweredName, kw)

====
